---------------------------- MODULE Spec2Model ----------------------------
(***************************************************************************)
(* Model of the matchboxdb-rs SQL front end: the tokenizer (src/lexer.rs)  *)
(* and the statement/expression parser built on it (src/parser.rs).        *)
(*                                                                         *)
(* A text is a sequence of characters (Rust `char`s, i.e. code points).    *)
(* A character is written as a one-character string; characters that      *)
(* cannot be written in a string literal have a name in angle brackets.    *)
(* A Rust panic (`unwrap` on `None`) is the result ok = FALSE of the       *)
(* operator in which it happens, and the variable `fault` once it reaches  *)
(* the caller.                                                             *)
(***************************************************************************)
EXTENDS Integers, Sequences, FiniteSets, TLC

\* ------------------------------------------------------------------ bounds
\* Characters per text of the character family.
MaxChars == 3
\* Characters appended to a word in the word family.
MaxTail == 1
\* Chunks after "select " in the SELECT family.
MaxSelectChunks == 5
\* Chunks per text of the expression family.
MaxExprChunks == 4
\* Leading zeros put before a number of the number family.
MaxZeros == 1
\* next_token calls a test driver makes beyond the end of the text.
MaxOverRead == 2
\* parse_statement calls made on one parser.
MaxParseCalls == 2
\* Characters per text of the punctuation family.
MaxPunct == 2

\* ------------------------------------------------------------ Option<T>
None == <<>>
Some(x) == <<x>>
Unwrap(o) == o[1]

\* ------------------------------------------------------------ characters
NUL == "<NUL>"
EAcute == "<U+00E9>"
EAcuteUpper == "<U+00C9>"
Euro == "<U+20AC>"

LowerLetters == <<"a","b","c","d","e","f","g","h","i","j","k","l","m",
                  "n","o","p","q","r","s","t","u","v","w","x","y","z">>
UpperLetters == <<"A","B","C","D","E","F","G","H","I","J","K","L","M",
                  "N","O","P","Q","R","S","T","U","V","W","X","Y","Z">>
Range(s) == {s[i] : i \in DOMAIN s}
Digits == {"0","1","2","3","4","5","6","7","8","9"}

\* char::len_utf8: the bytes the character takes in a String.
LenUtf8(c) == IF c \in {EAcute, EAcuteUpper} THEN 2 ELSE IF c = Euro THEN 3 ELSE 1
\* char::is_whitespace, char::is_alphabetic, char::is_digit(10), char::is_alphanumeric
IsWhitespace(c) == c \in {" ", "\t", "\n", "\r"}
IsAlphabetic(c) == c \in Range(LowerLetters) \cup Range(UpperLetters) \cup {EAcute, EAcuteUpper}
IsDigit(c) == c \in Digits
IsAlphanumeric(c) == IsAlphabetic(c) \/ IsDigit(c)

\* char::to_uppercase for the characters above (each maps to one character).
CharToUppercase(c) ==
    IF c \in Range(LowerLetters)
    THEN UpperLetters[CHOOSE i \in DOMAIN LowerLetters : LowerLetters[i] = c]
    ELSE IF c = EAcute THEN EAcuteUpper ELSE c
\* str::to_uppercase
ToUppercase(s) == [i \in DOMAIN s |-> CharToUppercase(s[i])]

\* String::len: the length in BYTES.
RECURSIVE StrLen(_)
StrLen(s) == IF s = <<>> THEN 0 ELSE LenUtf8(Head(s)) + StrLen(Tail(s))
\* str::chars().nth(n): the n-th CHARACTER (from 0), None past the last one.
CharsNth(s, n) == IF n < Len(s) THEN Some(s[n + 1]) ELSE None

\* ---------------------------------------------------------------- tokens
Token(kind, literal) == [kind |-> kind, literal |-> literal]

\* lookup_identifier's keyword table.
Keywords ==
    (<<"S","E","L","E","C","T">> :> "Select") @@
    (<<"I","N","S","E","R","T">> :> "Insert") @@
    (<<"U","P","D","A","T","E">> :> "Update") @@
    (<<"D","E","L","E","T","E">> :> "Delete") @@
    (<<"F","R","O","M">> :> "From") @@
    (<<"T","A","B","L","E">> :> "Table") @@
    (<<"W","H","E","R","E">> :> "Where") @@
    (<<"V","A","L","U","E","S">> :> "Values") @@
    (<<"I","N","T","O">> :> "Into")

LookupIdentifierCaseSensitive(s) ==
    IF s \in DOMAIN Keywords THEN Keywords[s] ELSE "Identifier"
LookupIdentifier(s) ==
    IF ToUppercase(s) \in DOMAIN Keywords THEN Keywords[ToUppercase(s)] ELSE "Identifier"

SingleCharKindAngleSwapped ==
    ("=" :> "Equals") @@ (";" :> "Semicolon") @@ ("," :> "Comma") @@
    ("(" :> "LParen") @@ (")" :> "RParen") @@ ("{" :> "LBrace") @@
    ("}" :> "RBrace") @@ ("+" :> "Plus") @@ ("-" :> "Minus") @@
    ("*" :> "Asterisk") @@ ("/" :> "Slash") @@ ("<" :> "Gt") @@ (">" :> "Lt")
\* The match arms of next_token that take one character and no lookahead.
SingleCharKind ==
    ("=" :> "Equals") @@ (";" :> "Semicolon") @@ ("," :> "Comma") @@
    ("(" :> "LParen") @@ (")" :> "RParen") @@ ("{" :> "LBrace") @@
    ("}" :> "RBrace") @@ ("+" :> "Plus") @@ ("-" :> "Minus") @@
    ("*" :> "Asterisk") @@ ("/" :> "Slash") @@ ("<" :> "Lt") @@ (">" :> "Gt")

\* ----------------------------------------------------------------- Lexer
\* struct Lexer, with one history field: `emitted`, the tokens next_token has
\* returned so far, in order.
ReadCharClamped(l) ==
    IF l.read_position >= StrLen(l.input) THEN [l EXCEPT !.ch = Some(NUL)]
    ELSE [l EXCEPT !.ch = CharsNth(l.input, l.read_position),
                   !.position = l.read_position,
                   !.read_position = l.read_position + 1]
ReadChar(l) ==
    [l EXCEPT !.ch = IF l.read_position >= StrLen(l.input)
                     THEN Some(NUL)
                     ELSE CharsNth(l.input, l.read_position),
              !.position = l.read_position,
              !.read_position = l.read_position + 1]

LexerNew(input) ==
    ReadChar([input |-> input, position |-> 0, read_position |-> 0,
              ch |-> None, emitted |-> <<>>])

PeekCharAtPosition(l) ==
    IF l.read_position >= StrLen(l.input) THEN None ELSE CharsNth(l.input, l.position)
PeekChar(l) ==
    IF l.read_position >= StrLen(l.input) THEN None ELSE CharsNth(l.input, l.read_position)

\* The loops unwrap `ch` before every test: ok = FALSE is the panic.
RECURSIVE EatWs(_)
EatWs(l) ==
    IF l.ch = None THEN [ok |-> FALSE, lexer |-> l]
    ELSE IF IsWhitespace(Unwrap(l.ch)) THEN EatWs(ReadChar(l))
    ELSE [ok |-> TRUE, lexer |-> l]

RECURSIVE ReadIdentifier(_, _)
ReadIdentifier(l, identifier) ==
    IF l.ch = None THEN [ok |-> FALSE, lexer |-> l, text |-> identifier]
    ELSE IF IsAlphanumeric(Unwrap(l.ch))
         THEN ReadIdentifier(ReadChar(l), Append(identifier, Unwrap(l.ch)))
    ELSE [ok |-> TRUE, lexer |-> l, text |-> identifier]

RECURSIVE ReadNumber(_, _)
ReadNumber(l, number) ==
    IF l.ch = None THEN [ok |-> FALSE, lexer |-> l, text |-> number]
    ELSE IF IsDigit(Unwrap(l.ch))
         THEN ReadNumber(ReadChar(l), Append(number, Unwrap(l.ch)))
    ELSE [ok |-> TRUE, lexer |-> l, text |-> number]

\* What a next_token call leaves: the token and the lexer after it, or a panic.
Returned(l, token) ==
    [ok |-> TRUE, lexer |-> [l EXCEPT !.emitted = Append(@, token)], token |-> Some(token)]
Panicked(l) == [ok |-> FALSE, lexer |-> l, token |-> None]

NextToken(l) ==
    LET w == EatWs(l) IN
    IF ~w.ok THEN Panicked(w.lexer)
    ELSE
    LET s == w.lexer
        c == Unwrap(s.ch)
    IN  IF c \in DOMAIN SingleCharKind
        THEN Returned(ReadChar(s), Token(SingleCharKind[c], <<c>>))
        ELSE IF c = "!"
        THEN IF PeekChar(s) = Some("=")
             THEN Returned(ReadChar(ReadChar(s)), Token("NotEq", <<"!", "=">>))
             ELSE Returned(ReadChar(s), Token("Bang", <<"!">>))
        ELSE IF c = NUL
        THEN Returned(ReadChar(s), Token("Eof", <<NUL>>))
        ELSE IF IsAlphabetic(c)
        THEN LET r == ReadIdentifier(s, <<>>) IN
             IF ~r.ok THEN Panicked(r.lexer)
             ELSE LET kind == LookupIdentifier(r.text) IN
                  Returned(r.lexer,
                           Token(kind, IF kind = "Identifier" THEN r.text
                                       ELSE ToUppercase(r.text)))
        ELSE IF IsDigit(c)
        THEN LET r == ReadNumber(s, <<>>) IN
             IF ~r.ok THEN Panicked(r.lexer)
             ELSE Returned(r.lexer, Token("Int", r.text))
        ELSE Returned(ReadChar(s), Token("Illegal", <<>>))

\* --------------------------------------------------------- str::parse::<i64>
\* An i64 is written as its canonical decimal numeral: a sequence of digit
\* characters, most significant first, without leading zeros ("0" for zero).
\* (TLC's integers are 32 bits wide; the numeral keeps all 64.)
DigitString == <<"0","1","2","3","4","5","6","7","8","9">>
DigitValue(c) == (CHOOSE i \in DOMAIN DigitString : DigitString[i] = c) - 1
\* i64::MAX = 2^63 - 1 = 9223372036854775807
I64Max == <<"9","2","2","3","3","7","2","0","3","6","8","5","4","7","7","5","8","0","7">>
\* a > b, for canonical numerals.
DecGreater(a, b) ==
    \/ Len(a) > Len(b)
    \/ /\ Len(a) = Len(b)
       /\ \E i \in DOMAIN a :
            /\ DigitValue(a[i]) > DigitValue(b[i])
            /\ \A j \in 1..(i - 1) : a[j] = b[j]
\* acc.checked_mul(10)?.checked_add(d)?: None on overflow.
CheckedMulAdd(acc, d) ==
    LET r == IF acc = <<"0">> THEN <<d>> ELSE Append(acc, d)
    IN  IF DecGreater(r, I64Max) THEN None ELSE Some(r)
\* The digit loop of i64::from_str_radix(s, 10), from the i-th character on.
RECURSIVE FromStrDigits(_, _, _)
FromStrDigits(s, i, acc) ==
    IF i > Len(s) THEN Some(acc)
    ELSE IF ~IsDigit(s[i]) THEN None
    ELSE LET r == CheckedMulAdd(acc, s[i]) IN
         IF r = None THEN None ELSE FromStrDigits(s, i + 1, Unwrap(r))
\* literal.parse::<i64>().ok(), for the unsigned texts an Int token can carry.
ParseI64(s) == IF s = <<>> THEN None ELSE FromStrDigits(s, 1, <<"0">>)

\* ---------------------------------------------------------------- Parser
\* enum Precedence: the two levels parse_expression is called with.
Lowest == 1
Prefix == 6

\* What a parsing function leaves: the parser after it and its return value
\* (an Option), or a panic (ok = FALSE) raised by the lexer underneath.
Ret(p, value) == [ok |-> TRUE, parser |-> p, value |-> value]
Abort(p) == [ok |-> FALSE, parser |-> p, value |-> None]

\* Parser::new registers these prefix rules.
PrefixParsers ==
    ("Identifier" :> "parse_identifier") @@ ("Int" :> "parse_integer_literal") @@
    ("Bang" :> "parse_prefix_expression") @@ ("Minus" :> "parse_prefix_expression")

\* Bind(v, Then) is `let v = ...; Then(v)`: the value is computed once.
Bind(v, Then(_)) == Then(v)

ParserNextTokenSkipping(p) ==
    Bind(NextToken(p.lexer), LAMBDA r :
        IF ~r.ok THEN Abort(p)
        ELSE Bind(NextToken(r.lexer), LAMBDA q :
            IF ~q.ok THEN Abort(p)
            ELSE Ret([p EXCEPT !.current_token = p.peek_token,
                               !.peek_token = Unwrap(q.token),
                               !.lexer = q.lexer], None)))
ParserNextToken(p) ==
    Bind(NextToken(p.lexer), LAMBDA r :
        IF ~r.ok THEN Abort(p)
        ELSE Ret([p EXCEPT !.current_token = p.peek_token,
                           !.peek_token = Unwrap(r.token),
                           !.lexer = r.lexer], None))

CurrentTokenIs(p, kind) == p.current_token.kind = kind
PeekTokenIs(p, kind) == p.peek_token.kind = kind

\* format!("expected {:?}, found {:?}", kind, self.peek_token.kind)
ErrorMessage(expected, found) == "expected " \o expected \o ", found " \o found

ExpectPeekNoAdvance(p, kind) ==
    IF PeekTokenIs(p, kind) THEN Ret(p, TRUE)
    ELSE Ret([p EXCEPT !.errors = Append(@, ErrorMessage(kind, p.peek_token.kind))], FALSE)
ExpectPeekReportingTwice(p, kind) ==
    IF PeekTokenIs(p, kind)
    THEN Bind(ParserNextToken(p), LAMBDA n :
             IF n.ok THEN Ret(n.parser, TRUE) ELSE Abort(n.parser))
    ELSE Ret([p EXCEPT !.errors = Append(Append(@, ErrorMessage(kind, p.peek_token.kind)),
                                         ErrorMessage(kind, p.peek_token.kind))], FALSE)
ExpectPeek(p, kind) ==
    IF PeekTokenIs(p, kind)
    THEN Bind(ParserNextToken(p), LAMBDA n :
             IF n.ok THEN Ret(n.parser, TRUE) ELSE Abort(n.parser))
    ELSE Ret([p EXCEPT !.errors = Append(@, ErrorMessage(kind, p.peek_token.kind))], FALSE)

ParseIdentifierAdvancing(p) ==
    Bind(ParserNextToken(p), LAMBDA n :
        IF n.ok
        THEN Ret(n.parser, Some([type |-> "Identifier", token |-> p.current_token,
                                 value |-> p.current_token.literal]))
        ELSE Abort(n.parser))
ParseIdentifierFromPeek(p) ==
    Ret(p, Some([type |-> "Identifier", token |-> p.peek_token,
                 value |-> p.peek_token.literal]))
ParseIdentifier(p) ==
    Ret(p, Some([type |-> "Identifier", token |-> p.current_token,
                 value |-> p.current_token.literal]))

ParseIntegerLiteralUnwrap(p) ==
    Bind(ParseI64(p.current_token.literal), LAMBDA v :
        IF v = None THEN Abort(p)
        ELSE Ret(p, Some([type |-> "Int", token |-> p.current_token, value |-> Unwrap(v)])))
ParseIntegerLiteral(p) ==
    Bind(ParseI64(p.current_token.literal), LAMBDA v :
        IF v = None THEN Ret(p, None)
        ELSE Ret(p, Some([type |-> "Int", token |-> p.current_token, value |-> Unwrap(v)])))

RECURSIVE ParseExpression(_, _)
RECURSIVE ParsePrefixExpression(_)

ParseExpressionDiagnosed(p, precedence) ==
    IF p.current_token.kind \notin DOMAIN PrefixParsers
    THEN Ret([p EXCEPT !.errors = Append(@, "no parse rule for " \o p.current_token.kind)],
             None)
    ELSE Bind(PrefixParsers[p.current_token.kind], LAMBDA prefix :
             IF prefix = "parse_identifier" THEN ParseIdentifier(p)
             ELSE IF prefix = "parse_integer_literal" THEN ParseIntegerLiteral(p)
             ELSE ParsePrefixExpression(p))
ParseExpression(p, precedence) ==
    IF p.current_token.kind \notin DOMAIN PrefixParsers THEN Ret(p, None)
    ELSE Bind(PrefixParsers[p.current_token.kind], LAMBDA prefix :
             IF prefix = "parse_identifier" THEN ParseIdentifier(p)
             ELSE IF prefix = "parse_integer_literal" THEN ParseIntegerLiteral(p)
             ELSE ParsePrefixExpression(p))

ParsePrefixExpression(p) ==
    Bind(ParserNextToken(p), LAMBDA n :
        IF ~n.ok THEN Abort(n.parser)
        ELSE Bind(ParseExpression(n.parser, Prefix), LAMBDA r :
                 IF ~r.ok \/ r.value = None THEN r
                 ELSE Ret(r.parser,
                          Some([type |-> "Prefixed", token |-> p.current_token,
                                operator |-> p.current_token.literal,
                                right |-> Unwrap(r.value)]))))

ParseExpressionStatement(p) ==
    Bind(ParseExpression(p, Lowest), LAMBDA r :
        IF ~r.ok \/ r.value = None THEN r
        ELSE Ret(r.parser,
                 Some([type |-> "Expr", token |-> p.current_token,
                       expression |-> Unwrap(r.value)])))

\* The `while self.peek_token_is(Comma)` loop of parse_expression_list.
RECURSIVE ExpressionListLoop(_, _)
ExpressionListLoop(p, expressions) ==
    IF ~PeekTokenIs(p, "Comma") THEN Ret(p, Some(expressions))
    ELSE Bind(ParserNextToken(p), LAMBDA n :
        IF ~n.ok THEN Abort(n.parser)
        ELSE Bind(ExpectPeek(n.parser, "Identifier"), LAMBDA e :
            IF ~e.ok THEN Abort(e.parser)
            ELSE IF ~e.value THEN Ret(e.parser, None)
            ELSE Bind(ParseIdentifier(e.parser), LAMBDA i :
                IF i.value = None THEN i
                ELSE ExpressionListLoop(i.parser, Append(expressions, Unwrap(i.value))))))

ParseExpressionList(p) ==
    Bind(ExpectPeek(p, "Identifier"), LAMBDA e :
        IF ~e.ok THEN Abort(e.parser)
        ELSE IF ~e.value THEN Ret(e.parser, None)
        ELSE Bind(ParseIdentifier(e.parser), LAMBDA i :
            IF i.value = None THEN i
            ELSE ExpressionListLoop(i.parser, <<Unwrap(i.value)>>)))

ParseTableNameNoAdvance(p) ==
    Bind(ExpectPeekNoAdvance(p, "Identifier"), LAMBDA e :
        IF ~e.value THEN Ret(e.parser, None)
        ELSE ParseIdentifierFromPeek(e.parser))
ParseTableName(p) ==
    Bind(ExpectPeek(p, "Identifier"), LAMBDA e :
        IF ~e.ok THEN Abort(e.parser)
        ELSE IF ~e.value THEN Ret(e.parser, None)
        ELSE ParseIdentifier(e.parser))

ParseSelectStatement(p) ==
    Bind(ParseExpressionList(p), LAMBDA l :
        IF ~l.ok \/ l.value = None THEN l
        ELSE Bind(ExpectPeek(l.parser, "From"), LAMBDA f :
            IF ~f.ok THEN Abort(f.parser)
            ELSE IF ~f.value THEN Ret(f.parser, None)
            ELSE Bind(ParseTableName(f.parser), LAMBDA t :
                IF ~t.ok \/ t.value = None THEN t
                ELSE Ret(t.parser,
                         Some([type |-> "Select", token |-> p.current_token,
                               table_name |-> Unwrap(t.value),
                               expressions |-> Unwrap(l.value)])))))

ParseStatement(p) ==
    IF p.current_token.kind = "Select" THEN ParseSelectStatement(p)
    ELSE ParseExpressionStatement(p)

ParserNew(lexer) ==
    Bind(NextToken(lexer), LAMBDA c :
        IF ~c.ok THEN [ok |-> FALSE, parser |-> None]
        ELSE Bind(NextToken(c.lexer), LAMBDA k :
            IF ~k.ok THEN [ok |-> FALSE, parser |-> None]
            ELSE [ok |-> TRUE,
                  parser |-> Some([lexer |-> k.lexer,
                                   current_token |-> Unwrap(c.token),
                                   peek_token |-> Unwrap(k.token),
                                   errors |-> <<>>])]))

\* --------------------------------------------------------------- Display
\* impl fmt::Display for the AST: the text a node is rendered to.
RECURSIVE JoinWith(_, _)
JoinWith(ss, sep) ==
    IF ss = <<>> THEN <<>>
    ELSE IF Len(ss) = 1 THEN ss[1]
    ELSE ss[1] \o sep \o JoinWith(Tail(ss), sep)

RECURSIVE DisplayExpression(_)
DisplayExpression(e) ==
    IF e.type = "Identifier" THEN e.value
    ELSE IF e.type = "Int" THEN e.value
    ELSE <<"(">> \o e.operator \o DisplayExpression(e.right) \o <<")">>

DisplaySelectStatement(st) ==
    st.token.literal \o <<" ">>
        \o JoinWith([i \in DOMAIN st.expressions |-> DisplayExpression(st.expressions[i])],
                    <<",", " ">>)
        \o <<" ", "F", "R", "O", "M", " ">> \o DisplayExpression(st.table_name)

DisplayStatement(st) ==
    IF st.type = "Select" THEN DisplaySelectStatement(st)
    ELSE DisplayExpression(st.expression)

\* ---------------------------------------------------------------- inputs
\* The texts given to Lexer::new: five bounded families.
RECURSIVE Concat(_)
Concat(ss) == IF ss = <<>> THEN <<>> ELSE Head(ss) \o Concat(Tail(ss))
SeqsUpTo(S, n) == UNION {[1..k -> S] : k \in 0..n}

\* 1. every text of at most MaxChars characters over this alphabet
CharAlphabet == {" ", "!", "=", "a", "1", "#", NUL, EAcute, Euro}
CharInputs == SeqsUpTo(CharAlphabet, MaxChars)

\* 2. a word (each keyword in three letter cases, and some other words)
\*    followed by at most MaxTail more characters
CharToLowercase(c) ==
    IF c \in Range(UpperLetters)
    THEN LowerLetters[CHOOSE i \in DOMAIN UpperLetters : UpperLetters[i] = c]
    ELSE c
ToLowercase(s) == [i \in DOMAIN s |-> CharToLowercase(s[i])]
Capitalized(s) == [i \in DOMAIN s |-> IF i = 1 THEN s[i] ELSE CharToLowercase(s[i])]
OtherWords == {<<"s","e","l","e","c">>, <<"f","o","r","m">>, <<"a">>, <<"t","a","b","l","e","s">>, <<EAcute,"i","n","t","o">>}
Words ==
    DOMAIN Keywords \cup {ToLowercase(k) : k \in DOMAIN Keywords}
                    \cup {Capitalized(k) : k \in DOMAIN Keywords} \cup OtherWords
TailAlphabet == {"x", "1", " ", "!"}
WordInputs == {w \o t : w \in Words, t \in SeqsUpTo(TailAlphabet, MaxTail)}

\* 3. "select " followed by at most MaxSelectChunks of these chunks
SelectChunks == {<<"a"," ">>, <<"b"," ">>, <<","," ">>, <<"f","r","o","m"," ">>, <<EAcute>>}
SelectInputs ==
    {<<"s","e","l","e","c","t"," ">> \o Concat(cs) : cs \in SeqsUpTo(SelectChunks, MaxSelectChunks)}

\* 4. at most MaxExprChunks of these chunks
ExprChunks == {<<"!">>, <<"-">>, <<"a"," ">>, <<"1"," ">>, <<";">>, <<EAcute>>}
ExprInputs == {Concat(cs) : cs \in SeqsUpTo(ExprChunks, MaxExprChunks)}

\* 5. a number around the ends of the i64 range, after at most MaxZeros
\*    zeros and possibly a prefix operator
NumberBodies ==
    {<<"0">>,
     <<"7">>,
     <<"1","2","3","4">>,
     <<"1","0","0","0","0","0","0","0","0","0","0","0","0","0","0","0","0","0","0">>,
     <<"9","2","2","3","3","7","2","0","3","6","8","5","4","7","7","5","7","9","9">>,
     <<"9","2","2","3","3","7","2","0","3","6","8","5","4","7","7","5","8","0","7">>,
     <<"9","2","2","3","3","7","2","0","3","6","8","5","4","7","7","5","8","0","8">>,
     <<"9","2","2","3","3","7","2","0","3","6","8","5","4","7","7","5","8","1","0">>,
     <<"1","0","0","0","0","0","0","0","0","0","0","0","0","0","0","0","0","0","0","0">>,
     <<"1","8","4","4","6","7","4","4","0","7","3","7","0","9","5","5","1","6","1","6">>}
Zeros(n) == [i \in 1..n |-> "0"]
NumberInputs ==
    {pre \o Zeros(z) \o b : pre \in {<<>>, <<"-">>, <<"!">>}, z \in 0..MaxZeros,
                            b \in NumberBodies}

\* 6. a SELECT statement written with keywords in three letter cases, gaps of
\*    several kinds of whitespace, identifiers in mixed case and something
\*    after the table name
Gaps == {<<" ">>, <<" ", " ">>, <<"\t">>, <<"\n", " ">>}
ColumnLists ==
    {<<(<<"a">>)>>, <<(<<"A", "b">>), (<<"c", "1">>)>>, <<(<<EAcute, "a">>), (<<"b">>)>>}
TableNames == {<<"t">>, <<"T", "b">>}
Trailers == {<<>>, <<" ", "x">>, <<";">>}
SelectText(kw, gap, cols, from, table, trailer) ==
    kw \o gap \o JoinWith(cols, <<",">> \o gap) \o gap \o from \o gap \o table \o trailer
StatementInputs ==
    {SelectText(kw, gap, cols, from, table, trailer) :
        kw \in {<<"s","e","l","e","c","t">>, <<"S","E","L","E","C","T">>,
                <<"S","e","l","e","c","t">>},
        gap \in Gaps, cols \in ColumnLists,
        from \in {<<"f","r","o","m">>, <<"F","R","O","M">>, <<"f","r","O","m">>},
        table \in TableNames, trailer \in Trailers}

\* 7. every text of at most MaxPunct characters over the operator and
\*    punctuation characters, a letter and a space; and the text of
\*    tests::next_token's first case
PunctAlphabet == {"=", ";", ",", "(", ")", "{", "}", "+", "-", "*", "/", "<", ">", "a", " "}
PunctInputs ==
    SeqsUpTo(PunctAlphabet, MaxPunct) \cup {<<"=", "+", "(", ")", "{", "}", ",", ";">>}

Inputs ==
    CharInputs \cup WordInputs \cup SelectInputs \cup ExprInputs \cup NumberInputs
        \cup StatementInputs \cup PunctInputs

\* ----------------------------------------------------------------- state
\* lexer:  the Lexer a caller holds (None once Parser::new has taken it)
\* parser: the Parser a caller holds (None before Parser::new)
\* call:   the last call made: its name, the object it was made on as it was
\*         before the call, and what it returned
\* nparse: the parse_statement calls made so far
\* fault:  a call has panicked
\* origin: the rendered text the lexer in use was built from (None: a text of
\*         Inputs)
\* twin, other: further Lexer instances a caller holds, `twin` built from the
\*         text `lexer` was built from, `other` from another text
VARIABLES lexer, parser, call, nparse, fault, origin, twin, other
vars == <<lexer, parser, call, nparse, fault, origin, twin, other>>

\* `text` is the String a call takes or returns, `kind` the TokenKind it
\* returns.
Call(op, lexer_before, parser_before, token, stmt) ==
    [op |-> op, lexer_before |-> lexer_before, parser_before |-> parser_before,
     token |-> token, stmt |-> stmt, text |-> None, kind |-> None]

Init ==
    /\ lexer \in {Some(LexerNew(input)) : input \in Inputs}
    /\ parser = None
    /\ call = Call("Lexer::new", None, None, None, None)
    /\ nparse = 0
    /\ fault = FALSE
    /\ origin = None
    /\ twin = None
    /\ other = None

\* lexer.next_token(), as the lexer's tests drive it.
CallNextToken ==
    /\ ~fault
    /\ lexer # None
    /\ Unwrap(lexer).read_position <= StrLen(Unwrap(lexer).input) + MaxOverRead
    /\ \E r \in {NextToken(Unwrap(lexer))} :
         /\ fault' = ~r.ok
         /\ lexer' = IF r.ok THEN Some(r.lexer) ELSE lexer
         /\ call' = Call("next_token", lexer, None, r.token, None)
    /\ UNCHANGED <<parser, nparse, origin, twin, other>>

\* Parser::new(Lexer::new(s)): every caller in the repository hands over a
\* lexer fresh from Lexer::new.
CallParserNew ==
    /\ ~fault
    /\ lexer # None
    /\ Unwrap(lexer).emitted = <<>>
    /\ \E r \in {ParserNew(Unwrap(lexer))} :
         /\ fault' = ~r.ok
         /\ parser' = r.parser
         /\ lexer' = IF r.ok THEN None ELSE lexer
         /\ call' = Call("Parser::new", lexer, None, None, None)
    /\ UNCHANGED <<nparse, origin, twin, other>>

\* parser.parse_statement()
CallParseStatement ==
    /\ ~fault
    /\ parser # None
    /\ nparse < MaxParseCalls
    /\ \E r \in {ParseStatement(Unwrap(parser))} :
         /\ fault' = ~r.ok
         /\ parser' = IF r.ok THEN Some(r.parser) ELSE parser
         /\ call' = Call("parse_statement", None, parser, None, r.value)
    /\ nparse' = nparse + 1
    /\ UNCHANGED <<lexer, origin, twin, other>>

\* format!("{}", statement), on the statement the last call returned.
CallDisplay ==
    /\ ~fault
    /\ call.op = "parse_statement"
    /\ call.stmt # None
    /\ call' = [Call("fmt", None, parser, None, call.stmt)
                   EXCEPT !.text = Some(DisplayStatement(Unwrap(call.stmt)))]
    /\ UNCHANGED <<lexer, parser, nparse, fault, origin, twin, other>>

\* Lexer::new(&text) on the text just rendered: the round trip of
\* tests::parse_stringify_select, parsed again.
CallLexerNewOnRendered ==
    /\ ~fault
    /\ call.op = "fmt"
    /\ origin = None
    /\ lexer' = Some(LexerNew(Unwrap(call.text)))
    /\ parser' = None
    /\ nparse' = 0
    /\ origin' = call.text
    /\ call' = Call("Lexer::new", None, None, None, None)
    /\ UNCHANGED <<fault, twin, other>>

Next ==
    \/ CallNextToken
    \/ CallParserNew
    \/ CallParseStatement
    \/ CallDisplay
    \/ CallLexerNewOnRendered

Spec == Init /\ [][Next]_vars

\* ------------------------------------------------- several Lexer instances
\* A caller that holds two lexers built from one text and a third one built
\* from another text, and calls next_token on them and lookup_identifier in
\* any order.
TwinInputs == WordInputs
OtherInputs == {<<"i","n","t","o"," ","x">>}
LookupWords == {<<"f","r","O","m">>, <<"t","a","b","l","e","s">>}

InitTwins ==
    /\ \E input \in TwinInputs :
         /\ lexer = Some(LexerNew(input))
         /\ twin = Some(LexerNew(input))
    /\ other \in {Some(LexerNew(input)) : input \in OtherInputs}
    /\ parser = None
    /\ call = Call("Lexer::new", None, None, None, None)
    /\ nparse = 0
    /\ fault = FALSE
    /\ origin = None

CallTwinNextTokenSharedCursor ==
    /\ ~fault
    /\ twin # None
    /\ Unwrap(lexer).read_position <= StrLen(Unwrap(twin).input) + MaxOverRead
    /\ \E r \in {NextToken([Unwrap(twin) EXCEPT
                                 !.position = Unwrap(lexer).position,
                                 !.read_position = Unwrap(lexer).read_position,
                                 !.ch = Unwrap(lexer).ch])} :
         /\ fault' = ~r.ok
         /\ twin' = IF r.ok THEN Some(r.lexer) ELSE twin
         /\ lexer' = IF r.ok THEN Some([Unwrap(lexer) EXCEPT
                                           !.position = r.lexer.position,
                                           !.read_position = r.lexer.read_position,
                                           !.ch = r.lexer.ch])
                     ELSE lexer
         /\ call' = Call("twin.next_token", twin, None, r.token, None)
    /\ UNCHANGED <<parser, nparse, origin, other>>
\* twin.next_token()
CallTwinNextToken ==
    /\ ~fault
    /\ twin # None
    /\ Unwrap(twin).read_position <= StrLen(Unwrap(twin).input) + MaxOverRead
    /\ \E r \in {NextToken(Unwrap(twin))} :
         /\ fault' = ~r.ok
         /\ twin' = IF r.ok THEN Some(r.lexer) ELSE twin
         /\ call' = Call("twin.next_token", twin, None, r.token, None)
    /\ UNCHANGED <<lexer, parser, nparse, origin, other>>

\* other.next_token()
CallOtherNextToken ==
    /\ ~fault
    /\ other # None
    /\ Unwrap(other).read_position <= StrLen(Unwrap(other).input) + MaxOverRead
    /\ \E r \in {NextToken(Unwrap(other))} :
         /\ fault' = ~r.ok
         /\ other' = IF r.ok THEN Some(r.lexer) ELSE other
         /\ call' = Call("other.next_token", other, None, r.token, None)
    /\ UNCHANGED <<lexer, parser, nparse, origin, twin>>

\* lookup_identifier(w), called directly.
CallLookupIdentifier ==
    /\ ~fault
    /\ \E w \in LookupWords :
         call' = [Call("lookup_identifier", None, None, None, None)
                    EXCEPT !.text = Some(w), !.kind = Some(LookupIdentifier(w))]
    /\ UNCHANGED <<lexer, parser, nparse, fault, origin, twin, other>>

NextTwins ==
    \/ CallNextToken
    \/ CallTwinNextToken
    \/ CallOtherNextToken
    \/ CallLookupIdentifier

SpecTwins == InitTwins /\ [][NextTwins]_vars

\* ------------------------------------------------------- reading a state
\* The last call was a parse_statement / next_token call ...
ParseCalled == call.op = "parse_statement"
ParseReturned == ParseCalled /\ ~fault
TokenCalled == call.op = "next_token"
TokenReturned == TokenCalled /\ ~fault
\* ... made on this parser / lexer ...
ParserBefore == Unwrap(call.parser_before)
LexerBefore == Unwrap(call.lexer_before)
\* ... which is now this one.
ParserNow == Unwrap(parser)
LexerNow == Unwrap(lexer)
\* Whether the statement returned is Some(Select) / Some(Expr).
ReturnedSelect == ParseReturned /\ call.stmt # None /\ Unwrap(call.stmt).type = "Select"
ReturnedExpr == ParseReturned /\ call.stmt # None /\ Unwrap(call.stmt).type = "Expr"

\* The token stream of a parser: everything its lexer has returned. The
\* parser's current token is the last but one of them. CurIndex is the index
\* of the current token in the stream.
StreamOf(p) == p.lexer.emitted
CurIndex(p) == Len(p.lexer.emitted) - 1

\* The tokens the lexer goes on to return from state l, up to and including
\* the first Eof token; the stream is cut short where next_token panics.
RECURSIVE Upcoming(_)
Upcoming(l) ==
    Bind(NextToken(l), LAMBDA r :
        IF ~r.ok THEN <<>>
        ELSE IF Unwrap(r.token).kind = "Eof" THEN r.token
        ELSE r.token \o Upcoming(r.lexer))
\* The tokens in front of a parser: current, peek, and what the lexer holds.
Ahead(p) == <<p.current_token, p.peek_token>> \o
            (IF p.peek_token.kind = "Eof" THEN <<>> ELSE Upcoming(p.lexer))

IdentifierOf(t) == [type |-> "Identifier", token |-> t, value |-> t.literal]

\* ------------------------------------------------------------------ C1
\* C1: whenever parse_statement returns None, the call has appended at least
\* one message: the error list is strictly longer after the call than before.
C1_NoneLeavesMessage ==
    (ParseReturned /\ call.stmt = None)
        => Len(ParserNow.errors) > Len(ParserBefore.errors)

\* ------------------------------------------------------------------ C2
\* The SELECT grammar read off a token sequence ts whose first token is the
\* SELECT keyword: Identifier (Comma Identifier)* From Identifier. The verdict
\* is "match", or "mismatch" with the kind expected and the kind found at the
\* first position that does not fit, or "cut" when the tokens end (the lexer
\* panicked) before either is decided.
Verdict(result, expected, found) ==
    [result |-> result, expected |-> expected, found |-> found]
RECURSIVE SelectColumns(_, _)
SelectColumns(ts, i) ==
    IF i > Len(ts) THEN Verdict("cut", "", "")
    ELSE IF ts[i].kind # "Identifier" THEN Verdict("mismatch", "Identifier", ts[i].kind)
    ELSE IF i + 1 > Len(ts) THEN Verdict("cut", "", "")
    ELSE IF ts[i + 1].kind = "Comma" THEN SelectColumns(ts, i + 2)
    ELSE IF ts[i + 1].kind # "From" THEN Verdict("mismatch", "From", ts[i + 1].kind)
    ELSE IF i + 2 > Len(ts) THEN Verdict("cut", "", "")
    ELSE IF ts[i + 2].kind # "Identifier"
         THEN Verdict("mismatch", "Identifier", ts[i + 2].kind)
    ELSE Verdict("match", "", "")
SelectGrammar(ts) == SelectColumns(ts, 2)

C2_Holds(v) ==
    IF v.result = "match" THEN ~fault /\ call.stmt # None
    ELSE /\ ~fault
         /\ call.stmt = None
         /\ ParserNow.errors =
                Append(ParserBefore.errors, ErrorMessage(v.expected, v.found))

\* C2: when the current token is SELECT, parse_statement succeeds exactly when
\* the following tokens match Identifier (Comma Identifier)* From Identifier;
\* otherwise it returns None and the one message it appends is
\* "expected K, found F" for the first position that does not fit.
C2_SelectGrammar ==
    (ParseCalled /\ ParserBefore.current_token.kind = "Select")
        => C2_Holds(SelectGrammar(Ahead(ParserBefore)))

\* C2, for the calls that return: the same statement, of the calls in which
\* the lexer does not panic.
C2_SelectGrammarWhenReturned ==
    (ParseReturned /\ ParserBefore.current_token.kind = "Select")
        => C2_Holds(SelectGrammar(Ahead(ParserBefore)))

C2_Witness_Mismatch ==
    /\ ParseReturned
    /\ ParserBefore.current_token.kind = "Select"
    /\ call.stmt = None
    /\ ParserNow.errors = <<"expected From, found Identifier">>

\* ------------------------------------------------------------------ C3
\* C3: every SelectStatement returned has a non-empty column list of
\* Identifier expressions, one per identifier of the comma-separated list, in
\* source order and with the identifier's literal; its table is the Identifier
\* after FROM and its token is the SELECT keyword token, literal "SELECT".
C3_SelectShape ==
    ReturnedSelect =>
        LET st == Unwrap(call.stmt)
            ts == StreamOf(ParserNow)
            i0 == CurIndex(ParserBefore)
            n == Len(st.expressions)
        IN  /\ n >= 1
            /\ Len(ts) >= i0 + 2 * n + 1
            /\ st.token = ts[i0]
            /\ st.token = Token("Select", <<"S","E","L","E","C","T">>)
            /\ \A j \in 1..n :
                 /\ ts[i0 + 2 * j - 1].kind = "Identifier"
                 /\ st.expressions[j] = IdentifierOf(ts[i0 + 2 * j - 1])
            /\ \A j \in 1..(n - 1) : ts[i0 + 2 * j].kind = "Comma"
            /\ ts[i0 + 2 * n].kind = "From"
            /\ ts[i0 + 2 * n + 1].kind = "Identifier"
            /\ st.table_name = IdentifierOf(ts[i0 + 2 * n + 1])

C3_Witness_TwoColumns ==
    /\ ReturnedSelect
    /\ Len(Unwrap(call.stmt).expressions) = 2
    /\ Unwrap(call.stmt).expressions[1].value = <<"a">>
    /\ Unwrap(call.stmt).expressions[2].value = <<"b">>
    /\ Unwrap(call.stmt).table_name.value = <<"a">>

\* ------------------------------------------------------------------ C4
\* The tokens a statement is made of.
RECURSIVE ExpressionTokens(_)
ExpressionTokens(e) ==
    IF e.type = "Prefixed" THEN 1 + ExpressionTokens(e.right) ELSE 1
StatementTokens(st) ==
    IF st.type = "Select" THEN 2 * Len(st.expressions) + 2
    ELSE ExpressionTokens(st.expression)

\* Where the lookahead window is after a successful call: `past` tokens after
\* the first token of the statement.
WindowAt(past) ==
    LET ts == StreamOf(ParserNow)
        at == CurIndex(ParserBefore) + past
    IN  /\ Len(ts) = at + 1
        /\ ParserNow.current_token = ts[at]
        /\ ParserNow.peek_token = ts[at + 1]

\* C4 as stated: after a successful call the current token is the first token
\* after the last token of the statement, and peek the token after that.
C4_WindowPastStatement ==
    (ParseReturned /\ call.stmt # None)
        => WindowAt(StatementTokens(Unwrap(call.stmt)))

\* C4, amended: after a successful call the current token is the LAST token
\* of the statement (the table name, the operand), and peek is the first token
\* after the statement: the call has fetched one token fewer than the
\* statement has.
C4_WindowOnLastToken ==
    (ParseReturned /\ call.stmt # None)
        => WindowAt(StatementTokens(Unwrap(call.stmt)) - 1)

C4_Witness_PrefixThenMore ==
    /\ ReturnedExpr
    /\ Unwrap(call.stmt).expression.type = "Prefixed"
    /\ Unwrap(call.stmt).expression.right.type = "Prefixed"
    /\ ParserNow.current_token.kind = "Identifier"
    /\ ParserNow.peek_token.kind = "Semicolon"

\* ------------------------------------------------------------------ C5
EofToken == Token("Eof", <<NUL>>)
\* C5: next_token returns the Eof token only once every character of the text
\* has been consumed, and once it has returned Eof it returns that same Eof
\* token ever after.
C5_EofOnlyAtEndAndStable ==
    TokenReturned =>
        /\ Unwrap(call.token).kind = "Eof" =>
              /\ call.token = Some(EofToken)
              /\ LexerNow.position >= Len(LexerNow.input)
        /\ \A i \in DOMAIN LexerNow.emitted : \A j \in DOMAIN LexerNow.emitted :
              (i < j /\ LexerNow.emitted[i].kind = "Eof")
                  => LexerNow.emitted[j] = EofToken

\* ------------------------------------------------------------------ C6
\* The lexer in use: the caller's, or the one inside the caller's parser.
LexerInUse == IF lexer # None THEN LexerNow ELSE ParserNow.lexer

\* C6: the end-of-input bound of read_char and peek_char is in the unit of
\* the index that fetches the character, so the current character is never
\* absent, no next_token call faults (neither the caller's nor the parser's),
\* and the token returned once every character has been tokenized is Eof.
C6_OneIndexUnit ==
    /\ ~fault
    /\ LexerInUse.ch # None
    /\ (TokenReturned /\ LexerBefore.position >= Len(LexerBefore.input))
           => Unwrap(call.token).kind = "Eof"

\* ------------------------------------------------------------------ C7
\* The decimal value of a digit string, as a canonical numeral.
RECURSIVE StripLeadingZeros(_)
StripLeadingZeros(s) ==
    IF Len(s) > 1 /\ Head(s) = "0" THEN StripLeadingZeros(Tail(s)) ELSE s
\* The number a short digit string (at most 7 digits) denotes.
RECURSIVE NumberOf(_)
NumberOf(s) ==
    IF s = <<>> THEN 0
    ELSE 10 * NumberOf(SubSeq(s, 1, Len(s) - 1)) + DigitValue(s[Len(s)])
\* A canonical numeral is at most 2^63 - 1 = 9,223,372,036,854,775,807:
\* compared in three groups of 6, 6 and 7 digits.
AtMostI64Max(v) ==
    \/ Len(v) < 19
    \/ /\ Len(v) = 19
       /\ LET hi == NumberOf(SubSeq(v, 1, 6))
              mid == NumberOf(SubSeq(v, 7, 12))
              lo == NumberOf(SubSeq(v, 13, 19))
          IN  \/ hi < 922337
              \/ hi = 922337 /\ mid < 203685
              \/ hi = 922337 /\ mid = 203685 /\ lo <= 4775807

\* C7: the integer rule never faults. With an Int token current, whose digit
\* string denotes at most 2^63 - 1, parse_statement returns the expression
\* statement of an IntegerLiteral with that value (leading zeros allowed);
\* with a larger one it returns None.
C7_IntegerRule ==
    (ParseCalled /\ ParserBefore.current_token.kind = "Int") =>
        LET t == ParserBefore.current_token
            v == StripLeadingZeros(t.literal)
        IN  /\ ~fault
            /\ call.stmt =
                 IF AtMostI64Max(v)
                 THEN Some([type |-> "Expr", token |-> t,
                            expression |-> [type |-> "Int", token |-> t, value |-> v]])
                 ELSE None

C7_Witness_Overflow ==
    /\ ParseReturned
    /\ ParserBefore.current_token.kind = "Int"
    /\ Len(ParserBefore.current_token.literal) = 19
    /\ call.stmt = None

\* ------------------------------------------------------------------ C8
\* The prefix operators at the head of a token sequence.
RECURSIVE LeadingOperators(_)
LeadingOperators(ts) ==
    IF ts # <<>> /\ Head(ts).kind \in {"Bang", "Minus"}
    THEN 1 + LeadingOperators(Tail(ts)) ELSE 0
\* An operand the identifier rule or the integer rule parses.
IsOperand(t) ==
    \/ t.kind = "Identifier"
    \/ t.kind = "Int" /\ AtMostI64Max(StripLeadingZeros(t.literal))
OperandOf(t) ==
    IF t.kind = "Identifier" THEN IdentifierOf(t)
    ELSE [type |-> "Int", token |-> t, value |-> StripLeadingZeros(t.literal)]
\* ts[i..k] are operators and ts[k+1] the operand: the right-nested expression.
RECURSIVE Nested(_, _, _)
Nested(ts, i, k) ==
    IF i > k THEN OperandOf(ts[k + 1])
    ELSE [type |-> "Prefixed", token |-> ts[i], operator |-> ts[i].literal,
          right |-> Nested(ts, i + 1, k)]

C8_Holds(ts, k) ==
    IF Len(ts) > k /\ IsOperand(ts[k + 1])
    THEN /\ ~fault
         /\ call.stmt = Some([type |-> "Expr", token |-> ts[1],
                              expression |-> Nested(ts, 1, k)])
         /\ CurIndex(ParserNow) = CurIndex(ParserBefore) + k
    ELSE ~fault => call.stmt = None

\* C8: with Bang or Minus current, each prefix operator advances one token and
\* parses its operand from the new current token: k >= 1 operators followed by
\* an Identifier or an in-range Int give the expression statement of k
\* right-nested PrefixExpressions, operators in source order, around that
\* operand; when the operand cannot be parsed nothing is produced.
C8_PrefixChain ==
    (ParseCalled /\ ParserBefore.current_token.kind \in {"Bang", "Minus"})
        => C8_Holds(Ahead(ParserBefore), LeadingOperators(Ahead(ParserBefore)))

\* C8, for the calls that return: the same statement, of the calls in which
\* the lexer does not panic.
C8_PrefixChainWhenReturned ==
    (ParseReturned /\ ParserBefore.current_token.kind \in {"Bang", "Minus"})
        => C8_Holds(Ahead(ParserBefore), LeadingOperators(Ahead(ParserBefore)))

C8_Witness_ThreeOperators ==
    /\ ReturnedExpr
    /\ LeadingOperators(Ahead(ParserBefore)) = 3
    /\ Unwrap(call.stmt).expression.right.right.right.type = "Identifier"

\* ------------------------------------------------------------------ C9
\* The keyword names of the claim, each with its token kind.
KeywordNames ==
    {<<(<<"S","E","L","E","C","T">>), "Select">>,
     <<(<<"U","P","D","A","T","E">>), "Update">>,
     <<(<<"I","N","S","E","R","T">>), "Insert">>,
     <<(<<"D","E","L","E","T","E">>), "Delete">>,
     <<(<<"F","R","O","M">>), "From">>,
     <<(<<"T","A","B","L","E">>), "Table">>,
     <<(<<"W","H","E","R","E">>), "Where">>,
     <<(<<"V","A","L","U","E","S">>), "Values">>,
     <<(<<"I","N","T","O">>), "Into">>}
\* The index (from 1) of the first character at or after i that is not
\* whitespace; Len(s) + 1 when there is none.
RECURSIVE SkipWhitespace(_, _)
SkipWhitespace(s, i) ==
    IF i <= Len(s) /\ IsWhitespace(s[i]) THEN SkipWhitespace(s, i + 1) ELSE i
\* The longest run of letters and digits of s that starts at index i.
RECURSIVE RunFrom(_, _)
RunFrom(s, i) ==
    IF i <= Len(s) /\ IsAlphanumeric(s[i]) THEN <<s[i]>> \o RunFrom(s, i + 1) ELSE <<>>
SameLetters(a, b) == ToLowercase(a) = ToLowercase(b)

\* C9: for a letter-initial run w that next_token scans, the token is a
\* keyword token exactly when w is, letter case apart, one of the nine
\* keywords, and then its literal is the keyword in upper case; otherwise it is
\* the Identifier token with literal w as written.
C9_KeywordOrIdentifier ==
    TokenReturned =>
        LET s == LexerBefore.input
            i == SkipWhitespace(s, LexerBefore.position + 1)
            w == RunFrom(s, i)
            t == Unwrap(call.token)
        IN  (i <= Len(s) /\ IsAlphabetic(s[i])) =>
                /\ \A k \in KeywordNames :
                     SameLetters(w, k[1]) => t = Token(k[2], k[1])
                /\ (\A k \in KeywordNames : ~SameLetters(w, k[1]))
                       => t = Token("Identifier", w)
                /\ LexerNow.position = i - 1 + Len(w)

C9_Witness_MixedCaseKeyword ==
    /\ TokenReturned
    /\ call.token = Some(Token("Values", <<"V","A","L","U","E","S">>))
    /\ SubSeq(LexerBefore.input, 1, 6) = <<"V","a","l","u","e","s">>

\* ------------------------------------------------------------------ C10
\* C10: with '!' the current character, next_token returns NotEq "!=" and
\* consumes two characters when the character right after it is '='; in every
\* other case (another character, whitespace, the end of the text) it returns
\* Bang "!" and consumes the '!' alone, leaving the character after it current.
C10_BangOrNotEq ==
    (TokenCalled /\ LexerBefore.ch = Some("!")) =>
        LET p == LexerBefore.position
            after == CharsNth(LexerBefore.input, p + 1)
        IN  /\ ~fault
            /\ IF after = Some("=")
               THEN /\ call.token = Some(Token("NotEq", <<"!", "=">>))
                    /\ LexerNow.position = p + 2
               ELSE /\ call.token = Some(Token("Bang", <<"!">>))
                    /\ LexerNow.position = p + 1
                    /\ after # None => LexerNow.ch = after

C10_Witness_NotEq ==
    /\ TokenReturned
    /\ LexerBefore.ch = Some("!")
    /\ call.token = Some(Token("NotEq", <<"!", "=">>))
    /\ LexerNow.ch = Some("a")

\* ------------------------------------------------------------------ C11
\* The characters a token is made of: the token t that a call returns after
\* skipping whitespace up to index `from` (from 1) and leaving the cursor on
\* index `to` is built from s[from..to], and from nothing else. Past the last
\* character the only token is Eof, which takes one (virtual) position.
BuiltFrom(t, s, from, to) ==
    IF from > Len(s) THEN t = EofToken /\ to = from
    ELSE /\ from <= to /\ to <= Len(s)
         /\ IF t.kind = "Illegal" THEN t.literal = <<>> /\ to = from
            ELSE IF t.kind = "Eof" THEN s[from] = NUL /\ to = from
            ELSE IF t.kind \in {k[2] : k \in KeywordNames}
                 THEN SameLetters(t.literal, SubSeq(s, from, to))
            ELSE t.literal = SubSeq(s, from, to)

\* The first n next_token calls on a fresh lexer for this text: for each, the
\* token and the span [from, to] of the indices it consumed after whitespace.
RECURSIVE Replay(_, _)
Replay(l, n) ==
    IF n = 0 THEN <<>>
    ELSE Bind(NextToken(l), LAMBDA r :
            IF ~r.ok THEN <<>>
            ELSE <<[token |-> Unwrap(r.token),
                    from |-> SkipWhitespace(l.input, l.position + 1),
                    to |-> r.lexer.position]>> \o Replay(r.lexer, n - 1))

\* C11: the tokenizer is forward-only. Every next_token call that returns
\* leaves position and read_position strictly larger than it found them; the
\* token it returns is built from the characters between the cursor at the
\* start of the call and the cursor at its end; and the spans of the tokens
\* returned so far, this one included, are in source order and disjoint.
C11_ForwardOnly ==
    TokenReturned =>
        /\ LexerNow.position > LexerBefore.position
        /\ LexerNow.read_position > LexerBefore.read_position
        /\ BuiltFrom(Unwrap(call.token), LexerBefore.input,
                     SkipWhitespace(LexerBefore.input, LexerBefore.position + 1),
                     LexerNow.position)
        /\ Bind(LexerNow, LAMBDA l :
             Bind(Replay(LexerNew(l.input), Len(l.emitted)), LAMBDA run :
               /\ [k \in DOMAIN run |-> run[k].token] = l.emitted
               /\ \A k \in DOMAIN run :
                    /\ BuiltFrom(run[k].token, l.input, run[k].from, run[k].to)
                    /\ k > 1 => run[k - 1].to < run[k].from
               /\ run[Len(run)].to = l.position))

C11_Witness_ThreeTokensAndOverRead ==
    /\ TokenReturned
    /\ Len(LexerNow.emitted) = 4
    /\ LexerNow.emitted[1].kind = "Select"
    /\ LexerNow.emitted[2].kind = "Bang"
    /\ LexerNow.emitted[3].kind = "Eof"
    /\ LexerNow.position > Len(LexerNow.input)

\* ------------------------------------------------------------------ C12
\* A character none of next_token's arms recognises.
IsIllegalChar(c) ==
    /\ ~IsWhitespace(c)
    /\ c \notin DOMAIN SingleCharKind
    /\ c # "!"
    /\ c # NUL
    /\ ~IsAlphabetic(c)
    /\ ~IsDigit(c)

\* The call returned Illegal "" for the character at index i (from 1) of s,
\* consumed that character alone, and what the lexer goes on to return is the
\* tokens of the rest of the text, through to Eof.
IllegalThenNormal(s, i) ==
    /\ ~fault
    /\ call.token = Some(Token("Illegal", <<>>))
    /\ LexerNow.position = i
    /\ LET rest == Upcoming(LexerNow)
       IN  /\ rest = Upcoming(LexerNew(SubSeq(s, i + 1, Len(s))))
           /\ rest # <<>>
           /\ rest[Len(rest)].kind = "Eof"

\* C12: when the first character after whitespace is none of: an operator or
\* punctuation character, a letter, a digit, the end-of-input sentinel,
\* next_token does not fault and returns one Illegal token with an empty
\* literal, consumes that one character, and the later calls tokenize the
\* characters after it as they would at the start of a text.
C12_IllegalCharacter ==
    TokenCalled =>
        LET s == LexerBefore.input
            i == SkipWhitespace(s, LexerBefore.position + 1)
        IN  (i <= Len(s) /\ IsIllegalChar(s[i])) => IllegalThenNormal(s, i)

\* C12, for the texts in which every character takes one byte: the same
\* statement, where byte and character indices coincide.
C12_IllegalCharacterSingleByte ==
    TokenCalled =>
        LET s == LexerBefore.input
            i == SkipWhitespace(s, LexerBefore.position + 1)
        IN  (i <= Len(s) /\ IsIllegalChar(s[i]) /\ StrLen(s) = Len(s))
                => IllegalThenNormal(s, i)

C12_Witness_IllegalThenWord ==
    /\ TokenReturned
    /\ LexerBefore.input = <<" ", "#", "a">>
    /\ call.token = Some(Token("Illegal", <<>>))
    /\ LexerNow.ch = Some("a")

\* ------------------------------------------------------------------ C13
NoPrefixRule(t) == t.kind \notin DOMAIN PrefixParsers

\* C13: a token whose kind has no prefix rule, where an expression is
\* required, gives no expression and no message. At the start of a statement
\* (the kind is not Select either) parse_statement does not fault and returns
\* None leaving the parser as it was: error list, current token, peek token
\* and lexer. As the operand of prefix operators, parse_statement returns None
\* with the error list unchanged and the window left on that token.
C13_NoRuleNoMessage ==
    /\ (/\ ParseCalled
        /\ NoPrefixRule(ParserBefore.current_token)
        /\ ParserBefore.current_token.kind # "Select")
          => /\ ~fault
             /\ call.stmt = None
             /\ ParserNow.errors = ParserBefore.errors
             /\ ParserNow.current_token = ParserBefore.current_token
             /\ ParserNow.peek_token = ParserBefore.peek_token
             /\ ParserNow = ParserBefore
    /\ (ParseReturned /\ ParserBefore.current_token.kind \in {"Bang", "Minus"}) =>
          LET ts == Ahead(ParserBefore)
              k == LeadingOperators(ts)
          IN  (Len(ts) > k /\ NoPrefixRule(ts[k + 1]))
                  => /\ call.stmt = None
                     /\ ParserNow.errors = ParserBefore.errors
                     /\ ParserNow.current_token = ts[k + 1]

C13_Witness_SemicolonFirst ==
    /\ ParseReturned
    /\ ParserBefore.current_token.kind = "Semicolon"
    /\ ParserBefore.peek_token.kind = "Minus"
    /\ call.stmt = None
    /\ ParserNow.errors = <<>>
    /\ nparse = 2

\* ------------------------------------------------------------------ C14
\* "SELECT c1, c2, ..., cn FROM t" for these column names and table name.
RECURSIVE CommaSeparated(_)
CommaSeparated(names) ==
    IF Len(names) = 1 THEN names[1]
    ELSE names[1] \o <<",", " ">> \o CommaSeparated(Tail(names))
CanonicalSelect(names, table) ==
    <<"S","E","L","E","C","T"," ">> \o CommaSeparated(names)
        \o <<" ","F","R","O","M"," ">> \o table

\* A rendered text that is a SELECT statement's.
IsSelectText(o) ==
    /\ o # None
    /\ Len(Unwrap(o)) >= 7
    /\ SubSeq(Unwrap(o), 1, 7) = <<"S","E","L","E","C","T"," ">>
\* The last call rendered a SelectStatement.
RenderedSelect == ~fault /\ call.op = "fmt" /\ Unwrap(call.stmt).type = "Select"
\* The identifiers of the SELECT that parse_statement read from tokens
\* i0, i0+1, ... of the stream ts: its column names and its table name.
ColumnNames(ts, i0, n) == [j \in 1..n |-> ts[i0 + 2 * j - 1].literal]

\* C14, the rendering: a SelectStatement parsed from tokens SELECT c1 , ... cn
\* FROM t is rendered as "SELECT c1, ..., cn FROM t", the identifiers as
\* written in the input.
C14_CanonicalRendering ==
    RenderedSelect =>
        LET st == Unwrap(call.stmt)
            ts == StreamOf(ParserNow)
            n == Len(st.expressions)
            i0 == Len(ts) - 2 * n - 2
        IN  call.text =
                Some(CanonicalSelect(ColumnNames(ts, i0, n), ts[i0 + 2 * n + 1].literal))

\* C14: every SelectStatement is rendered as "SELECT c1, ..., cn FROM t", and
\* the rendered text parses again, without a fault, to a statement that is
\* rendered as the same text.
C14_RoundTrip ==
    /\ C14_CanonicalRendering
    /\ IsSelectText(origin)
          => /\ ~fault
             /\ (ParseReturned /\ nparse = 1) => call.stmt # None
             /\ (call.op = "fmt" /\ nparse = 1) => call.text = origin

\* C14, for the texts in which every character takes one byte.
C14_RoundTripSingleByte ==
    /\ C14_CanonicalRendering
    /\ (IsSelectText(origin) /\ StrLen(Unwrap(origin)) = Len(Unwrap(origin)))
          => /\ ~fault
             /\ (ParseReturned /\ nparse = 1) => call.stmt # None
             /\ (call.op = "fmt" /\ nparse = 1) => call.text = origin

C14_Witness_RoundTrip ==
    /\ call.op = "fmt"
    /\ nparse = 1
    /\ origin = Some(<<"S","E","L","E","C","T"," ","A","b",","," ","c","1",
                       " ","F","R","O","M"," ","T","b">>)
    /\ call.text = origin

\* ------------------------------------------------------------------ C15
\* The thirteen characters of the claim, each with its token kind.
SingleCharacterTokens ==
    {<<"=", "Equals">>, <<";", "Semicolon">>, <<",", "Comma">>, <<"(", "LParen">>,
     <<")", "RParen">>, <<"{", "LBrace">>, <<"}", "RBrace">>, <<"+", "Plus">>,
     <<"-", "Minus">>, <<"*", "Asterisk">>, <<"/", "Slash">>, <<"<", "Lt">>,
     <<">", "Gt">>}

\* C15: when the first character after whitespace is one of = ; , ( ) { } + -
\* * / < >, next_token does not fault and returns the token of the
\* corresponding kind whose literal is that character, and consumes that one
\* character: the character right after it, whatever it is, is the current
\* one for the next call.
C15_SingleCharacterTokens ==
    TokenCalled =>
        LET s == LexerBefore.input
            i == SkipWhitespace(s, LexerBefore.position + 1)
        IN  \A ck \in SingleCharacterTokens :
                (i <= Len(s) /\ s[i] = ck[1])
                    => /\ ~fault
                       /\ call.token = Some(Token(ck[2], <<ck[1]>>))
                       /\ LexerNow.position = i
                       /\ i < Len(s) => LexerNow.ch = Some(s[i + 1])

C15_Witness_AdjacentTokens ==
    /\ TokenReturned
    /\ LexerBefore.input = <<"<", ">">>
    /\ LexerNow.emitted = <<Token("Lt", <<"<">>), Token("Gt", <<">">>)>>

\* ------------------------------------------------------------------ C16
\* The kind of a word, by the keyword names alone.
KindOfWord(w) ==
    IF \E k \in KeywordNames : SameLetters(w, k[1])
    THEN (CHOOSE k \in KeywordNames : SameLetters(w, k[1]))[2]
    ELSE "Identifier"
\* The first n elements of a sequence.
Take(s, n) == SubSeq(s, 1, n)

OutputStream(l, n) ==
    Bind(Replay(l, n), LAMBDA run : [k \in DOMAIN run |-> run[k].token])

\* C17: whenever there is a parser, its lexer has been asked for n >= 2
\* tokens; the current token is the one before the last of them and the peek
\* token the last. Parser::new fetches the first two tokens of the lexer's
\* output stream. A parse_statement call, whether it returns a statement or
\* None, never moves the window back, and extends the tokens fetched by the
\* tokens the lexer returns next, in order, none skipped and none repeated.
C17_LookaheadWindow ==
    parser # None =>
        LET ts == StreamOf(ParserNow)
            n == Len(ts)
        IN  /\ n >= 2
            /\ ParserNow.current_token = ts[n - 1]
            /\ ParserNow.peek_token = ts[n]
            /\ call.op = "Parser::new" => ts = OutputStream(LexerBefore, 2)
            /\ ParseCalled =>
                 /\ CurIndex(ParserNow) >= CurIndex(ParserBefore)
                 /\ ts = StreamOf(ParserBefore)
                            \o OutputStream(ParserBefore.lexer,
                                            n - Len(StreamOf(ParserBefore)))

C17_Witness_FailureAfterAdvance ==
    /\ ParseReturned
    /\ call.stmt = None
    /\ ParserNow.errors = <<"expected From, found Identifier">>
    /\ CurIndex(ParserBefore) = 1
    /\ CurIndex(ParserNow) = 4

\* ------------------------------------------------------------------ C18
\* C18: a parse_statement call leaves every message recorded before it at its
\* index, appends at most one message, and appends none when it returns a
\* statement; no other call touches the list.
C18_ErrorsAppendOnly ==
    /\ ParseReturned =>
         LET before == ParserBefore.errors
             now == ParserNow.errors
         IN  /\ Len(now) >= Len(before)
             /\ Take(now, Len(before)) = before
             /\ Len(now) <= Len(before) + 1
             /\ call.stmt # None => now = before
    /\ (call.op = "fmt" /\ parser # None) => ParserNow.errors = ParserBefore.errors

C18_Witness_SecondMessage ==
    /\ ParseReturned
    /\ nparse = 2
    /\ ParserBefore.errors = <<"expected Identifier, found From">>
    /\ ParserNow.errors = <<"expected Identifier, found From", "expected Identifier, found From">>

\* ------------------------------------------------------------------ C19
\* The whitespace characters of the claim.
Blanks == {" ", "\t", "\n"}
RemoveAt(s, i) == SubSeq(s, 1, i - 1) \o SubSeq(s, i + 1, Len(s))
InsertAt(s, i, c) == SubSeq(s, 1, i - 1) \o <<c>> \o SubSeq(s, i, Len(s))
\* The texts one whitespace edit away from s: a blank added at the start or
\* the end; a blank of an existing run replaced by another blank, or another
\* blank put beside it; a blank removed where the text starts or ends with it
\* or where the run it is in stays non-empty.
WhitespaceVariants(s) ==
    {<<w>> \o s : w \in Blanks} \cup {s \o <<w>> : w \in Blanks}
    \cup {[s EXCEPT ![i] = w] : i \in {j \in DOMAIN s : s[j] \in Blanks}, w \in Blanks}
    \cup {InsertAt(s, i, w) : i \in {j \in DOMAIN s : s[j] \in Blanks}, w \in Blanks}
    \cup {RemoveAt(s, i) :
            i \in {j \in DOMAIN s :
                     /\ s[j] \in Blanks
                     /\ \/ j = 1
                        \/ j = Len(s)
                        \/ s[j - 1] \in Blanks
                        \/ s[j + 1] \in Blanks}}

\* The caller's lexer has been driven to the end of its token sequence: the
\* last call returned the first Eof, or panicked.
RunEnded ==
    /\ TokenCalled
    /\ \A k \in DOMAIN LexerBefore.emitted : LexerBefore.emitted[k].kind # "Eof"
    /\ fault \/ Unwrap(call.token).kind = "Eof"

\* C19: the tokens a lexer returns for a text, up to the first Eof, are the
\* tokens it returns for the text with whitespace added or removed at the
\* start or the end, or with a whitespace run between two tokens replaced by
\* another non-empty run.
C19_WhitespaceInsensitive ==
    RunEnded =>
        \A v \in WhitespaceVariants(LexerNow.input) :
            Upcoming(LexerNew(v)) = LexerNow.emitted

\* C19, for the texts in which every character takes one byte.
C19_WhitespaceInsensitiveSingleByte ==
    (RunEnded /\ StrLen(LexerNow.input) = Len(LexerNow.input)) =>
        \A v \in WhitespaceVariants(LexerNow.input) :
            Upcoming(LexerNew(v)) = LexerNow.emitted

\* ------------------------------------------------------------------ C20
\* The longest run of decimal digits of s that starts at index i.
RECURSIVE DigitRunFrom(_, _)
DigitRunFrom(s, i) ==
    IF i <= Len(s) /\ IsDigit(s[i]) THEN <<s[i]>> \o DigitRunFrom(s, i + 1) ELSE <<>>

\* The call returned a token of run `run`, which starts at index i of s, and
\* left the character after the run, if there is one, as the current
\* character: it was not consumed and the next token starts with it.
MunchedRun(s, i, run, isInt) ==
    /\ ~fault
    /\ IF isInt THEN call.token = Some(Token("Int", run))
       ELSE /\ Len(Unwrap(call.token).literal) = Len(run)
            /\ SameLetters(Unwrap(call.token).literal, run)
            /\ Unwrap(call.token).kind = "Identifier" => Unwrap(call.token).literal = run
    /\ LexerNow.position = i - 1 + Len(run)
    /\ i + Len(run) <= Len(s) => LexerNow.ch = Some(s[i + Len(run)])

\* C20: a run that starts with a digit yields an Int token whose literal is
\* the longest run of digits and ends at the first character that is not a
\* digit; a run that starts with a letter yields one token over all the
\* letters and digits that follow; the character that ends the run is left
\* for the next token.
C20_MaximalMunch ==
    TokenCalled =>
        LET s == LexerBefore.input
            i == SkipWhitespace(s, LexerBefore.position + 1)
        IN  /\ (i <= Len(s) /\ IsDigit(s[i])) => MunchedRun(s, i, DigitRunFrom(s, i), TRUE)
            /\ (i <= Len(s) /\ IsAlphabetic(s[i])) => MunchedRun(s, i, RunFrom(s, i), FALSE)

\* C20, for the calls that return: the same statement, of the calls in which
\* the lexer does not panic.
C20_MaximalMunchWhenReturned ==
    TokenReturned =>
        LET s == LexerBefore.input
            i == SkipWhitespace(s, LexerBefore.position + 1)
        IN  /\ (i <= Len(s) /\ IsDigit(s[i])) => MunchedRun(s, i, DigitRunFrom(s, i), TRUE)
            /\ (i <= Len(s) /\ IsAlphabetic(s[i])) => MunchedRun(s, i, RunFrom(s, i), FALSE)

\* ------------------------------------------------------------------ C21
\* The index of the first Eof token of a token sequence; 0 when it has none.
FirstEof(ts) ==
    IF \E k \in DOMAIN ts : ts[k].kind = "Eof"
    THEN CHOOSE k \in DOMAIN ts : ts[k].kind = "Eof" /\ \A j \in 1..(k - 1) : ts[j].kind # "Eof"
    ELSE 0

\* Every call made so far has returned, and the work done is bounded by the
\* text: a lexer asked for n + 1 tokens of a text of n characters has returned
\* Eof among them; a parser stops fetching at Eof (it has fetched at most one
\* token after the first Eof); and a call that returns a statement has fetched
\* one token for each level of the prefix recursion, two for each turn of the
\* comma loop.
ReturnsWithinBounds ==
    /\ ~fault
    /\ lexer # None =>
          (Len(LexerNow.emitted) >= Len(LexerNow.input) + 1
              => FirstEof(LexerNow.emitted) \in 1..(Len(LexerNow.input) + 1))
    /\ parser # None =>
          /\ FirstEof(StreamOf(ParserNow)) # 0
                => Len(StreamOf(ParserNow)) <= FirstEof(StreamOf(ParserNow)) + 1
          /\ Len(StreamOf(ParserNow)) <= Len(ParserNow.lexer.input) + 2
    /\ ReturnedExpr =>
          Len(StreamOf(ParserNow)) - Len(StreamOf(ParserBefore))
              = ExpressionTokens(Unwrap(call.stmt).expression) - 1
    /\ ReturnedSelect =>
          Len(StreamOf(ParserNow)) - Len(StreamOf(ParserBefore))
              = 2 * (Len(Unwrap(call.stmt).expressions) - 1) + 3

\* C21: tokenizing and parsing end, and end by returning: no call faults,
\* Parser::new and parse_statement return (Some or None), the lexer reaches Eof
\* within n + 1 calls on a text of n characters, Eof stops the comma loop and
\* the prefix recursion, and each turn of the loop and each level of the
\* recursion has consumed a token.
C21_AlwaysReturns == ReturnsWithinBounds

\* C21, for the texts in which every character takes one byte.
C21_AlwaysReturnsSingleByte ==
    StrLen(LexerInUse.input) = Len(LexerInUse.input) => ReturnsWithinBounds

\* ------------------------------------------------------------------ C22
\* The call was made with an Identifier or an Int as the current token.
OnOperand == ParseCalled /\ ParserBefore.current_token.kind \in {"Identifier", "Int"}

\* The expression statement of the operand token t.
OperandStatement(t) ==
    [type |-> "Expr", token |-> t,
     expression |-> IF t.kind = "Identifier"
                    THEN [type |-> "Identifier", token |-> t, value |-> t.literal]
                    ELSE [type |-> "Int", token |-> t, value |-> StripLeadingZeros(t.literal)]]

\* The call left the parser as it was (current, peek, errors, and the lexer
\* with its cursor), and one more call on it returns the same value and again
\* changes nothing: a loop that waits for Eof to become current never ends.
NoProgress ==
    /\ ~fault
    /\ ParserNow = ParserBefore
    /\ ParserNow.current_token.kind # "Eof"
    /\ ParseStatement(ParserNow) = Ret(ParserNow, call.stmt)

\* C22 as stated: with an Identifier or an Int current, parse_statement
\* returns the expression statement of that token and consumes nothing, so
\* every further call returns an equal statement and none makes progress.
C22_OperandStatementEveryTime ==
    OnOperand =>
        /\ call.stmt = Some(OperandStatement(ParserBefore.current_token))
        /\ NoProgress

\* C22: with an Identifier or an Int current, parse_statement consumes
\* nothing: it leaves current, peek, the errors and the lexer cursor as they
\* were, and every further call returns an equal value and makes no progress.
\* The value is the expression statement of the token, except that for an Int
\* whose digits denote more than 2^63 - 1 it is None.
C22_NoTokenConsumed ==
    OnOperand =>
        /\ call.stmt =
             IF /\ ParserBefore.current_token.kind = "Int"
                /\ ~AtMostI64Max(StripLeadingZeros(ParserBefore.current_token.literal))
             THEN None
             ELSE Some(OperandStatement(ParserBefore.current_token))
        /\ NoProgress

\* The second call on "a 1": the Identifier is current and the Int is peek,
\* as before the first call, and the same statement comes back.
C22_Witness_SecondCallSameStatement ==
    /\ OnOperand
    /\ nparse = 2
    /\ ~fault
    /\ ParserBefore.current_token.kind = "Identifier"
    /\ ParserNow.peek_token.kind = "Int"
    /\ call.stmt = Some(OperandStatement(ParserBefore.current_token))

\* ------------------------------------------------------------------ C23
\* Texts to put after a statement. None starts with a letter or a digit, so
\* none lengthens the last token of the statement.
OneByteTrailers ==
    {<<>>, <<";">>, <<" ", "w", "h", "e", "r", "e">>, <<"#">>, <<" ", "#", "#">>,
     <<",", " ", "b">>, <<" ", "1">>, <<NUL>>}
Trailers23 == OneByteTrailers \cup {<<" ", EAcute>>, <<Euro>>}

\* The first parse_statement call on a new parser has returned a statement.
FirstStatementReturned == ParseReturned /\ nparse = 1 /\ call.stmt # None

\* The text of the statement just returned: the characters up to the end of
\* its last token, which is the parser's current token.
StatementText ==
    LET s == ParserNow.lexer.input
        m == Len(StreamOf(ParserNow)) - 1
    IN  Take(s, Replay(LexerNew(s), m)[m].to)

\* Parsing the statement text followed by the trailer tr gives what the call
\* just made has given: the same statement, the same errors, the same current
\* token, and one token fetched after it, no more.
SameResultBefore(tr) ==
    Bind(ParserNew(LexerNew(StatementText \o tr)), LAMBDA pn :
        /\ pn.ok
        /\ Bind(ParseStatement(Unwrap(pn.parser)), LAMBDA r :
              /\ r.ok
              /\ r.value = call.stmt
              /\ r.parser.errors = ParserNow.errors
              /\ r.parser.current_token = ParserNow.current_token
              /\ Len(StreamOf(r.parser)) = Len(StreamOf(ParserNow))))

\* C23: what parse_statement returns does not depend on what follows the
\* statement. Two texts that agree up to the table name of a SELECT, or up to
\* the operand of an expression statement, give equal statements and equal
\* error lists whatever follows (nothing, a semicolon, a WHERE keyword,
\* Illegal tokens, other text); what follows is neither consumed nor reported.
C23_TrailingTokensIgnored ==
    FirstStatementReturned => \A tr \in Trailers23 : SameResultBefore(tr)

\* C23, for the texts in which every character takes one byte.
C23_TrailingTokensIgnoredSingleByte ==
    (FirstStatementReturned /\ StrLen(ParserNow.lexer.input) = Len(ParserNow.lexer.input))
        => \A tr \in OneByteTrailers : SameResultBefore(tr)

=============================================================================
